---- MODULE Spec2Model ----
(***************************************************************************)
(* Caregiver/patient pairing and access guard of the REST backend.         *)
(*                                                                         *)
(* The repository holds two revisions of the server: the complete one      *)
(* (src/unnamed/part_000) and src/server.js, which share lines 1-255 and   *)
(* differ in the three pairing handlers that follow.                       *)
(*   Spec          the pairing routes of part_000                          *)
(*   SpecGuard     the caregiver sub-resource routes of part_000 beside    *)
(*                 every handler that writes counterpart_id                *)
(*   SpecServerJs  the pairing routes of server.js                         *)
(*   SpecSelf      POST /login and the self-service sub-resource routes,   *)
(*                 which are the same in both revisions                    *)
(*   SpecCare      the create routes of a patient and of the caregiver the *)
(*                 patient is paired with                                  *)
(*   SpecRoles     the pairing routes of part_000 called by users of       *)
(*                 either role                                             *)
(*   SpecRegister  POST /register into a users table that starts empty     *)
(* Every handler is an async function that suspends at each                *)
(* `await pool.query(...)`; one action of the model is one such query      *)
(* together with the synchronous code around it, so requests interleave    *)
(* exactly where the event loop lets them.                                 *)
(*                                                                         *)
(* The store is PostgreSQL, reached through pool.query.  It outlives the   *)
(* process, so Init ranges over the pairing states a users row can hold    *)
(* when the server starts.  In part_000 that is the only origin of a       *)
(* non-NULL requested_caregiver_id: the handlers read and clear the column *)
(* and none of them sets it.                                               *)
(***************************************************************************)
EXTENDS Bags, FiniteSets, Integers, Sequences, TLC

\* SQL NULL in an id column (ids are positive serials)
NULL == 0

\* the most requests that may be suspended between two of their queries
MaxInflight == 2

\* the most rows the sub-resource tables may hold together
MaxRows == 1

\* the most rows POST /register may add to a users table that starts empty
MaxUsers == 2

\* rows of the users table: one patient and two caregivers
Patients == {1}
Caregivers == {2, 3}
UserIds == Patients \cup Caregivers

\* an id that no users row has
MissingId == Cardinality(UserIds) + 1

RoleOf(u) == IF u \in Patients THEN "patient" ELSE "caregiver"

UsernameOf(u) == CASE u = 1 -> "pat1" [] u = 2 -> "cg2" [] u = 3 -> "cg3"

\* usernames a client may send; "nobody" is registered to no user
Usernames == {"pat1", "cg2", "cg3", "nobody"}

\* Authorization headers a client may send: a token signed for a user, no
\* header, or a token whose verification fails (bad signature or expired)
Tokens == [kind : {"valid"}, uid : UserIds]
            \cup [kind : {"absent", "invalid"}, uid : {NULL}]

TokenOf(u) == [kind |-> "valid", uid |-> u]
BadTokens == [kind : {"absent", "invalid"}, uid : {NULL}]
PatientTokens == {TokenOf(u) : u \in Patients}

VARIABLES
    users,      \* users table: id -> row
    medications, daily_tasks, appointments,  \* sub-resource tables: sets of rows
    inflight,   \* bag of handlers suspended after their first query
    resp,       \* the response sent by the last step (op "none": no response)
    sql,        \* the statement sent to pool.query by the last step
    served      \* (caregiver, patient) pairs already answered 200 on a caregiver sub-resource route

vars == <<users, medications, daily_tasks, appointments, inflight, resp, sql, served>>
tables == <<medications, daily_tasks, appointments>>

NoResp == [op |-> "none", caller |-> NULL, pid |-> NULL, cg |-> NULL, status |-> 0, body |-> {}]

Reply(op, caller, pid, cg, status, body) ==
    [op |-> op, caller |-> caller, pid |-> pid, cg |-> cg, status |-> status, body |-> body]

Cont(op, caller, pid, cg) == [op |-> op, caller |-> caller, pid |-> pid, cg |-> cg]

\* ---- the authentication middleware ----

\* authenticate: req.userId when next() is called, NULL when it answered 401
authenticate(tok) == IF tok.kind = "valid" THEN tok.uid ELSE NULL

\* the middleware answering 401 without `return`, so that next() runs the handler
UnauthenticatedNoReturn(op, tok) ==
    /\ authenticate(tok) = NULL
    /\ resp' = Reply(op, NULL, NULL, NULL, 401, {})
    /\ sql' = "users.select"
    /\ UNCHANGED <<users, tables, inflight, served>>

\* a request stopped by the middleware: 401, no handler, no query
Unauthenticated(op, tok) ==
    /\ authenticate(tok) = NULL
    /\ resp' = Reply(op, NULL, NULL, NULL, 401, {})
    /\ sql' = "none"
    /\ UNCHANGED <<users, tables, inflight, served>>

\* ---- POST /login ----

\* the password each user registered with; the users row keeps its bcrypt hash
PasswordOf(u) == CASE u = 1 -> "pw1" [] u = 2 -> "pw2" [] u = 3 -> "pw3"

\* body.password as a client may send it: a string, or no string at all (the
\* field absent, or a JSON number)
PasswordInputs == [given : {TRUE}, text : {"pw1", "wrong"}] \cup [given : {FALSE}, text : {""}]

\* bcrypt.hash(password, 10), salt aside
BcryptHash(text) == <<"bcrypt", text>>

\* bcrypt.compare(password, hash): "error" is the rejection
\* "Illegal arguments" that bcryptjs answers when password is not a string
BcryptCompare(password, hash) ==
    IF ~password.given THEN "error"
    ELSE IF BcryptHash(password.text) = hash THEN "match" ELSE "mismatch"

\* SELECT * FROM users WHERE username = $1
SelectByUsername(name) == {u \in UserIds : UsernameOf(u) = name}

ReplyLogin(username, password, status, error, token) ==
    [op |-> "login", caller |-> NULL, pid |-> NULL, cg |-> NULL, status |-> status,
     body |-> {}, sent |-> [username |-> username, password |-> password],
     error |-> error, token |-> token]

NoToken == [kind |-> "absent", uid |-> NULL]

Login(username, password) ==
    /\ sql' = "users.select"
    /\ LET rows == SelectByUsername(username) IN
       resp' = IF rows = {}
               THEN ReplyLogin(username, password, 401, "Invalid credentials", NoToken)
               ELSE LET u == CHOOSE v \in rows : \A w \in rows : v <= w
                        isValid == BcryptCompare(password, BcryptHash(PasswordOf(u)))
                    IN  CASE isValid = "error" ->
                               ReplyLogin(username, password, 500, "Illegal arguments", NoToken)
                          [] isValid = "mismatch" ->
                               ReplyLogin(username, password, 401, "Invalid credentials", NoToken)
                          [] isValid = "match" ->
                               ReplyLogin(username, password, 200, "", TokenOf(u))
    /\ UNCHANGED <<users, tables, inflight, served>>

\* ---- POST /register ----

\* body.username and body.role as a client may send them; the role is stored
\* as it is sent
RegisterNames == {"ann", "bob"}
RegisterRoles == {"patient", "caregiver"}

\* the row INSERT INTO users (username, password, name, role) creates: the
\* pairing columns are NULL
NewUser(username, hashedPassword, role) ==
    [role |-> role, counterpart_id |-> NULL, requested_caregiver_id |-> NULL,
     assigned_caregiver |-> NULL, caregiver_id |-> NULL,
     username |-> username, password |-> hashedPassword]

ReplyRegister(username, password, role, status) ==
    [op |-> "register", caller |-> NULL, pid |-> NULL, cg |-> NULL, status |-> status,
     body |-> {}, sent |-> [username |-> username, password |-> password, role |-> role]]

\* the users rows that already carry the username
Registered(username) == {u \in DOMAIN users : users[u].username = username}

\* The users table is a sequence of rows, the id of a row its index.  The
\* schema is not part of the repository, so users.username may or may not
\* carry a UNIQUE constraint: the INSERT of a username that is already there
\* either adds a second row (201) or fails and is answered by the catch (500).
\* bcrypt.hash rejects a password that is not a string (500, no query).
Register(username, password, role) ==
    /\ IF ~password.given
       THEN /\ sql' = "none"
            /\ resp' = ReplyRegister(username, password, role, 500)
            /\ UNCHANGED users
       ELSE /\ sql' = "users.insert"
            /\ \/ /\ Len(users) < MaxUsers
                  /\ users' = Append(users, NewUser(username, BcryptHash(password.text), role))
                  /\ resp' = ReplyRegister(username, password, role, 201)
               \/ /\ Registered(username) # {}
                  /\ resp' = ReplyRegister(username, password, role, 500)
                  /\ UNCHANGED users
    /\ UNCHANGED <<tables, inflight, served>>

\* ---- queries on the users table ----

\* SELECT id FROM users WHERE username = $1 AND role = 'caregiver'
SelectCaregiverByUsername(name) ==
    {u \in UserIds : UsernameOf(u) = name /\ users[u].role = "caregiver"}

\* the guard reading the pending-request column instead of the pairing column
SelectAssignedWrongColumn(pid, cid) ==
    {u \in UserIds : u = pid /\ users[u].requested_caregiver_id = cid}

\* the guard honouring a grant remembered from an earlier request
SelectAssignedCached(pid, cid) ==
    {u \in UserIds : u = pid /\ (users[u].counterpart_id = cid \/ <<cid, u>> \in served)}

\* SELECT ... FROM users WHERE id = $1 AND counterpart_id = $2
SelectAssigned(pid, cid) ==
    {u \in UserIds : u = pid /\ users[u].counterpart_id = cid}

\* SELECT * FROM users WHERE id = $1 AND requested_caregiver_id = $2
SelectRequested(pid, cid) ==
    {u \in UserIds : u = pid /\ users[u].requested_caregiver_id = cid}

\* rows[0] of a non-empty result
FirstRow(rows) == CHOOSE u \in rows : \A v \in rows : u <= v

CanSuspend == BagCardinality(inflight) < MaxInflight

Suspend(c) == inflight' = inflight (+) SetToBag({c})

Resume(c) == /\ BagIn(c, inflight)
             /\ inflight' = inflight (-) SetToBag({c})

\* ---- POST /assign_caregiver ----

AssignCaregiverUpdate(cg, uid) ==
    [u \in UserIds |-> IF u = uid THEN [users[u] EXCEPT !.counterpart_id = cg] ELSE users[u]]

AssignCaregiver(tok, name) ==
    \/ Unauthenticated("assign_caregiver", tok)
    \/ /\ authenticate(tok) # NULL
       /\ sql' = "users.select"
       /\ LET rows == SelectCaregiverByUsername(name) IN
          IF rows = {}
          THEN /\ resp' = Reply("assign_caregiver", authenticate(tok), NULL, NULL, 404, {})
               /\ UNCHANGED inflight
          ELSE /\ CanSuspend
               /\ Suspend(Cont("assign_caregiver", authenticate(tok), NULL, FirstRow(rows)))
               /\ resp' = NoResp
       /\ UNCHANGED <<users, tables, served>>

AssignCaregiverFinish(c) ==
    /\ c.op = "assign_caregiver"
    /\ Resume(c)
    /\ users' = AssignCaregiverUpdate(c.cg, c.caller)
    /\ sql' = "users.update"
    /\ resp' = Reply("assign_caregiver", c.caller, NULL, c.cg, 200, {})
    /\ UNCHANGED <<tables, served>>

\* ---- GET /get_caregiver ----

\* SELECT u2.name ... FROM users u1 JOIN users u2 ON u1.counterpart_id = u2.id WHERE u1.id = $1
SelectCaregiverOf(uid) ==
    {u2 \in UserIds : \E u1 \in UserIds : u1 = uid /\ users[u1].counterpart_id = u2}

GetCaregiver(tok) ==
    \/ Unauthenticated("get_caregiver", tok)
    \/ /\ authenticate(tok) # NULL
       /\ sql' = "users.select"
       /\ LET rows == SelectCaregiverOf(authenticate(tok)) IN
          resp' = IF rows = {}
                  THEN Reply("get_caregiver", authenticate(tok), NULL, NULL, 404, {})
                  ELSE Reply("get_caregiver", authenticate(tok), NULL, NULL, 200, {FirstRow(rows)})
       /\ UNCHANGED <<users, tables, inflight, served>>

\* ---- GET /caregiver/pending-patients (part_000) ----

\* SELECT * FROM users WHERE requested_caregiver_id = $1 AND role = 'patient'
SelectPending(cid) ==
    {u \in UserIds : users[u].requested_caregiver_id = cid /\ users[u].role = "patient"}

\* caregiverId comes from the query string, NULL when it is absent
PendingPatients(tok, cid) ==
    \/ Unauthenticated("pending_patients", tok)
    \/ /\ authenticate(tok) # NULL
       /\ IF cid = NULL
          THEN /\ sql' = "none"
               /\ resp' = Reply("pending_patients", authenticate(tok), NULL, cid, 400, {})
          ELSE /\ sql' = "users.select"
               /\ resp' = Reply("pending_patients", authenticate(tok), NULL, cid, 200, SelectPending(cid))
       /\ UNCHANGED <<users, tables, inflight, served>>

\* ---- POST /caregiver/accept-patient/:patientId (part_000) ----

\* UPDATE users SET counterpart_id = $1, requested_caregiver_id = NULL WHERE id = $2
AcceptUpdate(cid, pid) ==
    [u \in UserIds |-> IF u = pid
                       THEN [users[u] EXCEPT !.counterpart_id = cid, !.requested_caregiver_id = NULL]
                       ELSE users[u]]

\* rowCount of an UPDATE ... WHERE id = $n
RowCount(pid) == Cardinality({u \in UserIds : u = pid})

AcceptPatient(tok, pid) ==
    \/ Unauthenticated("accept_patient", tok)
    \/ /\ authenticate(tok) # NULL
       /\ sql' = "users.select"
       /\ IF SelectRequested(pid, authenticate(tok)) = {}
          THEN /\ resp' = Reply("accept_patient", authenticate(tok), pid, NULL, 400, {})
               /\ UNCHANGED inflight
          ELSE /\ CanSuspend
               /\ Suspend(Cont("accept_patient", authenticate(tok), pid, NULL))
               /\ resp' = NoResp
       /\ UNCHANGED <<users, tables, served>>

AcceptPatientFinish(c) ==
    /\ c.op = "accept_patient"
    /\ Resume(c)
    /\ users' = AcceptUpdate(c.caller, c.pid)
    /\ sql' = "users.update"
    /\ resp' = IF RowCount(c.pid) = 0
               THEN Reply("accept_patient", c.caller, c.pid, NULL, 404, {})
               ELSE Reply("accept_patient", c.caller, c.pid, NULL, 200, {})
    /\ UNCHANGED <<tables, served>>

\* ---- POST /patients/assign-caregiver (part_000) ----

\* body.userId as the client sends it: a sequence of characters, a digit as its
\* value and 10 for a character that is not a digit ("1", "4", "1x", "x")
UserIdInputs == {<<1>>, <<4>>, <<1, 10>>, <<10>>}

IsDigit(ch) == ch \in 0..9

RECURSIVE DigitsValue(_, _)
DigitsValue(s, acc) ==
    IF s = <<>> \/ ~IsDigit(Head(s)) THEN acc ELSE DigitsValue(Tail(s), 10 * acc + Head(s))

\* parseInt(userId, 10): the leading digits, NaN (NULL here) when there are none
parseInt(s) == IF s = <<>> \/ ~IsDigit(Head(s)) THEN NULL ELSE DigitsValue(s, 0)

\* PostgreSQL reading a text parameter as an integer: every character must be
\* a digit; -1 stands for the error "invalid input syntax for type integer"
PgInteger(s) == IF \A k \in 1..Len(s) : IsDigit(s[k]) THEN DigitsValue(s, 0) ELSE -1

\* UPDATE users SET counterpart_id = $1 WHERE id = $2
RequestUpdate(cg, pid) ==
    [u \in UserIds |-> IF u = pid THEN [users[u] EXCEPT !.counterpart_id = cg] ELSE users[u]]

PatientsAssignCaregiver(tok, userId, name) ==
    \/ Unauthenticated("request_caregiver", tok)
    \/ /\ authenticate(tok) # NULL
       /\ IF parseInt(userId) = NULL
          THEN /\ sql' = "none"
               /\ resp' = Reply("request_caregiver", authenticate(tok), NULL, NULL, 400, {})
               /\ UNCHANGED inflight
          ELSE /\ sql' = "users.select"
               /\ LET rows == SelectCaregiverByUsername(name) IN
                  IF rows = {}
                  THEN /\ resp' = Reply("request_caregiver", authenticate(tok), parseInt(userId), NULL, 404, {})
                       /\ UNCHANGED inflight
                  ELSE /\ CanSuspend
                       /\ Suspend(Cont("request_caregiver", authenticate(tok), parseInt(userId), FirstRow(rows)))
                       /\ resp' = NoResp
       /\ UNCHANGED <<users, tables, served>>

\* the handler refusing a request that is already recorded
PatientsAssignCaregiverFinishOnce(c) ==
    /\ c.op = "request_caregiver"
    /\ Resume(c)
    /\ sql' = "users.update"
    /\ IF c.pid \in UserIds /\ users[c.pid].counterpart_id = c.cg
       THEN /\ resp' = Reply("request_caregiver", c.caller, c.pid, c.cg, 409, {})
            /\ UNCHANGED users
       ELSE /\ users' = RequestUpdate(c.cg, c.pid)
            /\ resp' = IF RowCount(c.pid) = 0
                       THEN Reply("request_caregiver", c.caller, c.pid, c.cg, 404, {})
                       ELSE Reply("request_caregiver", c.caller, c.pid, c.cg, 200, {})
    /\ UNCHANGED <<tables, served>>

PatientsAssignCaregiverFinish(c) ==
    /\ c.op = "request_caregiver"
    /\ Resume(c)
    /\ users' = RequestUpdate(c.cg, c.pid)
    /\ sql' = "users.update"
    /\ resp' = IF RowCount(c.pid) = 0
               THEN Reply("request_caregiver", c.caller, c.pid, c.cg, 404, {})
               ELSE Reply("request_caregiver", c.caller, c.pid, c.cg, 200, {})
    /\ UNCHANGED <<tables, served>>

\* ---- GET /caregiver/assigned-patients ----

\* SELECT id, name FROM users WHERE counterpart_id = $1 AND role = 'patient'
SelectAssignedPatients(cid) ==
    {u \in UserIds : users[u].counterpart_id = cid /\ users[u].role = "patient"}

AssignedPatients(tok) ==
    \/ Unauthenticated("assigned_patients", tok)
    \/ /\ authenticate(tok) # NULL
       /\ sql' = "users.select"
       /\ resp' = Reply("assigned_patients", authenticate(tok), NULL, NULL, 200,
                        SelectAssignedPatients(authenticate(tok)))
       /\ UNCHANGED <<users, tables, inflight, served>>

\* ---- the caregiver sub-resource routes ----

\* Text fields are sequences of characters: a digit is its value, the other
\* characters a client may send are numbered from 10 (10: any other character)
Dash == 11
Space == 12
Colon == 13

\* "2024-01-05", "2024-1-5" and "2024-01-05 09:30:00"
IsoDate == <<2, 0, 2, 4, Dash, 0, 1, Dash, 0, 5>>
ShortDate == <<2, 0, 2, 4, Dash, 1, Dash, 5>>
IsoDateTime == IsoDate \o <<Space, 0, 9, Colon, 3, 0, Colon, 0, 0>>

\* body.date and body.time as a client may send them; the empty sequence is
\* an absent field
DateInputs == {IsoDate, ShortDate}
TimeInputs == {IsoDateTime, IsoDate}

\* A row of a sub-resource table is its id, its user_id, the one column the
\* self-service routes validate (`date` of appointments, `time` of daily_tasks
\* and medications) and `live`, FALSE once the row has been deleted: the id is
\* a serial, never handed out twice, so a table remembers the ids it has used.
\* The schema is not part of the repository; the columns are taken to keep
\* the text they are given.

\* the id the serial of <table> hands out next
NextId(table) == Cardinality(table) + 1

\* INSERT INTO <table> (user_id, ...) VALUES ($1, ...) RETURNING *
InsertedRow(table, uid, when) ==
    [id |-> NextId(table), user_id |-> uid, when |-> when, live |-> TRUE]

InsertRow(table, uid, when) == table \cup {InsertedRow(table, uid, when)}

\* the rows of <table> that have not been deleted
Live(table) == {r \in table : r.live}

\* SELECT * FROM <table> WHERE user_id = $1
SelectRows(table, uid) == {r.id : r \in {x \in Live(table) : x.user_id = uid}}

\* a handler suspended in front of its INSERT, holding the request's body
ContInsert(op, caller, pid, when) ==
    [op |-> op, caller |-> caller, pid |-> pid, cg |-> NULL, when |-> when]

\* the suspended handlers that have an INSERT ahead of them
InflightInserts ==
    [c \in {d \in BagToSet(inflight) :
                d.op \in {"add_medication", "add_daily_task", "add_appointment"}} |-> inflight[c]]

\* room in the store for one more row, counting the inserts already on their way
HasRoom ==
    Cardinality(medications) + Cardinality(daily_tasks) + Cardinality(appointments)
        + BagCardinality(InflightInserts) < MaxRows

\* the handler without `return` in front of the 403 answer: it goes on to the insert
AddMedicationForPatientNoReturn(tok, pid, when) ==
    \/ Unauthenticated("add_medication", tok)
    \/ /\ authenticate(tok) # NULL
       /\ sql' = "users.select"
       /\ IF SelectAssigned(pid, authenticate(tok)) = {}
          THEN /\ resp' = Reply("add_medication", authenticate(tok), pid, NULL, 403, {})
               /\ HasRoom
               /\ medications' = InsertRow(medications, pid, when)
               /\ UNCHANGED <<inflight, daily_tasks, appointments>>
          ELSE /\ CanSuspend /\ HasRoom
               /\ Suspend(ContInsert("add_medication", authenticate(tok), pid, when))
               /\ resp' = NoResp
               /\ UNCHANGED tables
       /\ UNCHANGED <<users, served>>

\* POST /caregiver/add-medication/:patientId
AddMedicationForPatient(tok, pid, when) ==
    \/ Unauthenticated("add_medication", tok)
    \/ /\ authenticate(tok) # NULL
       /\ sql' = "users.select"
       /\ IF SelectAssigned(pid, authenticate(tok)) = {}
          THEN /\ resp' = Reply("add_medication", authenticate(tok), pid, NULL, 403, {})
               /\ UNCHANGED inflight
          ELSE /\ CanSuspend /\ HasRoom
               /\ Suspend(ContInsert("add_medication", authenticate(tok), pid, when))
               /\ resp' = NoResp
       /\ UNCHANGED <<users, tables, served>>

\* the INSERT given the caller's id instead of the :patientId of the path
AddMedicationForPatientFinishAsCaller(c) ==
    /\ c.op = "add_medication"
    /\ Resume(c)
    /\ medications' = InsertRow(medications, c.caller, c.when)
    /\ sql' = "medications.insert"
    /\ resp' = Reply("add_medication", c.caller, c.pid, NULL, 200, {NextId(medications)})
    /\ served' = served \cup {<<c.caller, c.pid>>}
    /\ UNCHANGED <<users, daily_tasks, appointments>>

AddMedicationForPatientFinish(c) ==
    /\ c.op = "add_medication"
    /\ Resume(c)
    /\ medications' = InsertRow(medications, c.pid, c.when)
    /\ sql' = "medications.insert"
    /\ resp' = Reply("add_medication", c.caller, c.pid, NULL, 200, {NextId(medications)})
    /\ served' = served \cup {<<c.caller, c.pid>>}
    /\ UNCHANGED <<users, daily_tasks, appointments>>

\* POST /caregiver/add-daily-task/:patientId
AddDailyTaskForPatient(tok, pid, when) ==
    \/ Unauthenticated("add_daily_task", tok)
    \/ /\ authenticate(tok) # NULL
       /\ sql' = "users.select"
       /\ IF SelectAssigned(pid, authenticate(tok)) = {}
          THEN /\ resp' = Reply("add_daily_task", authenticate(tok), pid, NULL, 403, {})
               /\ UNCHANGED inflight
          ELSE /\ CanSuspend /\ HasRoom
               /\ Suspend(ContInsert("add_daily_task", authenticate(tok), pid, when))
               /\ resp' = NoResp
       /\ UNCHANGED <<users, tables, served>>

AddDailyTaskForPatientFinish(c) ==
    /\ c.op = "add_daily_task"
    /\ Resume(c)
    /\ daily_tasks' = InsertRow(daily_tasks, c.pid, c.when)
    /\ sql' = "daily_tasks.insert"
    /\ resp' = Reply("add_daily_task", c.caller, c.pid, NULL, 200, {NextId(daily_tasks)})
    /\ served' = served \cup {<<c.caller, c.pid>>}
    /\ UNCHANGED <<users, medications, appointments>>

\* POST /caregiver/add-appointment/:patientId
AddAppointmentForPatient(tok, pid, when) ==
    \/ Unauthenticated("add_appointment", tok)
    \/ /\ authenticate(tok) # NULL
       /\ sql' = "users.select"
       /\ IF SelectAssigned(pid, authenticate(tok)) = {}
          THEN /\ resp' = Reply("add_appointment", authenticate(tok), pid, NULL, 403, {})
               /\ UNCHANGED inflight
          ELSE /\ CanSuspend /\ HasRoom
               /\ Suspend(ContInsert("add_appointment", authenticate(tok), pid, when))
               /\ resp' = NoResp
       /\ UNCHANGED <<users, tables, served>>

AddAppointmentForPatientFinish(c) ==
    /\ c.op = "add_appointment"
    /\ Resume(c)
    /\ appointments' = InsertRow(appointments, c.pid, c.when)
    /\ sql' = "appointments.insert"
    /\ resp' = Reply("add_appointment", c.caller, c.pid, NULL, 200, {NextId(appointments)})
    /\ served' = served \cup {<<c.caller, c.pid>>}
    /\ UNCHANGED <<users, medications, daily_tasks>>

\* GET /caregiver/patient-medications; patientId comes from the query string,
\* NULL when it is absent
PatientMedications(tok, pid) ==
    \/ Unauthenticated("patient_medications", tok)
    \/ /\ authenticate(tok) # NULL
       /\ IF pid = NULL
          THEN /\ sql' = "none"
               /\ resp' = Reply("patient_medications", authenticate(tok), pid, NULL, 400, {})
               /\ UNCHANGED inflight
          ELSE /\ sql' = "users.select"
               /\ IF SelectAssigned(pid, authenticate(tok)) = {}
                  THEN /\ resp' = Reply("patient_medications", authenticate(tok), pid, NULL, 403, {})
                       /\ UNCHANGED inflight
                  ELSE /\ CanSuspend
                       /\ Suspend(Cont("patient_medications", authenticate(tok), pid, NULL))
                       /\ resp' = NoResp
       /\ UNCHANGED <<users, tables, served>>

PatientMedicationsFinish(c) ==
    /\ c.op = "patient_medications"
    /\ Resume(c)
    /\ sql' = "medications.select"
    /\ resp' = Reply("patient_medications", c.caller, c.pid, NULL, 200, SelectRows(medications, c.pid))
    /\ served' = served \cup {<<c.caller, c.pid>>}
    /\ UNCHANGED <<users, tables>>

\* GET /caregiver/patient-daily-tasks
PatientDailyTasks(tok, pid) ==
    \/ Unauthenticated("patient_daily_tasks", tok)
    \/ /\ authenticate(tok) # NULL
       /\ IF pid = NULL
          THEN /\ sql' = "none"
               /\ resp' = Reply("patient_daily_tasks", authenticate(tok), pid, NULL, 400, {})
               /\ UNCHANGED inflight
          ELSE /\ sql' = "users.select"
               /\ IF SelectAssigned(pid, authenticate(tok)) = {}
                  THEN /\ resp' = Reply("patient_daily_tasks", authenticate(tok), pid, NULL, 403, {})
                       /\ UNCHANGED inflight
                  ELSE /\ CanSuspend
                       /\ Suspend(Cont("patient_daily_tasks", authenticate(tok), pid, NULL))
                       /\ resp' = NoResp
       /\ UNCHANGED <<users, tables, served>>

PatientDailyTasksFinish(c) ==
    /\ c.op = "patient_daily_tasks"
    /\ Resume(c)
    /\ sql' = "daily_tasks.select"
    /\ resp' = Reply("patient_daily_tasks", c.caller, c.pid, NULL, 200, SelectRows(daily_tasks, c.pid))
    /\ served' = served \cup {<<c.caller, c.pid>>}
    /\ UNCHANGED <<users, tables>>

\* ---- the self-service sub-resource routes ----

\* the answer of a self-service route: `id` is the :id of the path, `sent` the
\* validated field of the body, NULL and <<>> where the route has none
ReplyOwn(op, caller, id, sent, status, body) ==
    [op |-> op, caller |-> caller, pid |-> NULL, cg |-> NULL, status |-> status,
     body |-> body, id |-> id, sent |-> sent]

\* :id as a client may send it ("1", "2", "x")
RowIdInputs == {<<1>>, <<2>>, <<10>>}

\* /^\d{4}-\d{2}-\d{2}$/.test(date)
IsDateFormat(s) ==
    /\ Len(s) = 10
    /\ \A k \in {1, 2, 3, 4, 6, 7, 9, 10} : IsDigit(s[k])
    /\ s[5] = Dash /\ s[8] = Dash

\* /^\d{4}-\d{2}-\d{2} \d{2}:\d{2}:\d{2}$/.test(time)
IsDateTimeFormat(s) ==
    /\ Len(s) = 19
    /\ \A k \in {1, 2, 3, 4, 6, 7, 9, 10, 12, 13, 15, 16, 18, 19} : IsDigit(s[k])
    /\ s[5] = Dash /\ s[8] = Dash /\ s[11] = Space /\ s[14] = Colon /\ s[17] = Colon

\* SELECT * FROM <table> WHERE user_id = $1, the rows themselves
SelectOwn(table, uid) == {r \in Live(table) : r.user_id = uid}

\* the WHERE clause without `AND user_id = $2`
MatchingById(table, id, uid) == {r \in Live(table) : r.id = id}

\* the rows DELETE or UPDATE ... WHERE id = $1 AND user_id = $2 applies to
Matching(table, id, uid) == {r \in Live(table) : r.id = id /\ r.user_id = uid}

\* DELETE FROM <table> WHERE id = $1 AND user_id = $2
DeleteRows(table, id, uid) ==
    {IF r \in Matching(table, id, uid) THEN [r EXCEPT !.live = FALSE] ELSE r : r \in table}

\* UPDATE <table> SET ..., time = $3, ... WHERE id = $5 AND user_id = $6
UpdateRows(table, id, uid, when) ==
    {IF r \in Matching(table, id, uid) THEN [r EXCEPT !.when = when] ELSE r : r \in table}

\* GET /medications
GetMedications(tok) ==
    \/ Unauthenticated("get_medications", tok)
    \/ /\ authenticate(tok) # NULL
       /\ sql' = "medications.select"
       /\ resp' = ReplyOwn("get_medications", authenticate(tok), NULL, <<>>, 200,
                           SelectOwn(medications, authenticate(tok)))
       /\ UNCHANGED <<users, tables, inflight, served>>

\* POST /medications
PostMedication(tok, when) ==
    \/ Unauthenticated("post_medication", tok)
    \/ /\ authenticate(tok) # NULL
       /\ HasRoom
       /\ medications' = InsertRow(medications, authenticate(tok), when)
       /\ sql' = "medications.insert"
       /\ resp' = ReplyOwn("post_medication", authenticate(tok), NULL, when, 200,
                           {InsertedRow(medications, authenticate(tok), when)})
       /\ UNCHANGED <<users, daily_tasks, appointments, inflight, served>>

\* DELETE /medications/:id
DeleteMedication(tok, id) ==
    \/ Unauthenticated("delete_medication", tok)
    \/ /\ authenticate(tok) # NULL
       /\ sql' = "medications.delete"
       /\ IF PgInteger(id) = -1
          THEN /\ resp' = ReplyOwn("delete_medication", authenticate(tok), -1, <<>>, 500, {})
               /\ UNCHANGED medications
          ELSE /\ medications' = DeleteRows(medications, PgInteger(id), authenticate(tok))
               /\ resp' = ReplyOwn("delete_medication", authenticate(tok), PgInteger(id), <<>>, 200, {})
       /\ UNCHANGED <<users, daily_tasks, appointments, inflight, served>>

\* GET /appointments
GetAppointments(tok) ==
    \/ Unauthenticated("get_appointments", tok)
    \/ /\ authenticate(tok) # NULL
       /\ sql' = "appointments.select"
       /\ resp' = ReplyOwn("get_appointments", authenticate(tok), NULL, <<>>, 200,
                           SelectOwn(appointments, authenticate(tok)))
       /\ UNCHANGED <<users, tables, inflight, served>>

\* POST /appointments
PostAppointment(tok, when) ==
    \/ Unauthenticated("post_appointment", tok)
    \/ /\ authenticate(tok) # NULL
       /\ IF ~IsDateFormat(when)
          THEN /\ sql' = "none"
               /\ resp' = ReplyOwn("post_appointment", authenticate(tok), NULL, when, 400, {})
               /\ UNCHANGED appointments
          ELSE /\ HasRoom
               /\ appointments' = InsertRow(appointments, authenticate(tok), when)
               /\ sql' = "appointments.insert"
               /\ resp' = ReplyOwn("post_appointment", authenticate(tok), NULL, when, 200,
                                   {InsertedRow(appointments, authenticate(tok), when)})
       /\ UNCHANGED <<users, medications, daily_tasks, inflight, served>>

\* GET /daily_tasks
GetDailyTasks(tok) ==
    \/ Unauthenticated("get_daily_tasks", tok)
    \/ /\ authenticate(tok) # NULL
       /\ sql' = "daily_tasks.select"
       /\ resp' = ReplyOwn("get_daily_tasks", authenticate(tok), NULL, <<>>, 200,
                           SelectOwn(daily_tasks, authenticate(tok)))
       /\ UNCHANGED <<users, tables, inflight, served>>

\* POST /daily_tasks
PostDailyTask(tok, when) ==
    \/ Unauthenticated("post_daily_task", tok)
    \/ /\ authenticate(tok) # NULL
       /\ IF ~IsDateTimeFormat(when)
          THEN /\ sql' = "none"
               /\ resp' = ReplyOwn("post_daily_task", authenticate(tok), NULL, when, 400, {})
               /\ UNCHANGED daily_tasks
          ELSE /\ HasRoom
               /\ daily_tasks' = InsertRow(daily_tasks, authenticate(tok), when)
               /\ sql' = "daily_tasks.insert"
               /\ resp' = ReplyOwn("post_daily_task", authenticate(tok), NULL, when, 200,
                                   {InsertedRow(daily_tasks, authenticate(tok), when)})
       /\ UNCHANGED <<users, medications, appointments, inflight, served>>

\* PUT /daily_tasks/:id
PutDailyTask(tok, id, when) ==
    \/ Unauthenticated("put_daily_task", tok)
    \/ /\ authenticate(tok) # NULL
       /\ sql' = "daily_tasks.update"
       /\ IF PgInteger(id) = -1
          THEN /\ resp' = ReplyOwn("put_daily_task", authenticate(tok), -1, when, 500, {})
               /\ UNCHANGED daily_tasks
          ELSE /\ daily_tasks' = UpdateRows(daily_tasks, PgInteger(id), authenticate(tok), when)
               /\ resp' = IF Matching(daily_tasks, PgInteger(id), authenticate(tok)) = {}
                          THEN ReplyOwn("put_daily_task", authenticate(tok), PgInteger(id), when, 404, {})
                          ELSE ReplyOwn("put_daily_task", authenticate(tok), PgInteger(id), when, 200,
                                        {[r EXCEPT !.when = when] :
                                            r \in Matching(daily_tasks, PgInteger(id), authenticate(tok))})
       /\ UNCHANGED <<users, medications, appointments, inflight, served>>

\* DELETE /daily_tasks/:id
DeleteDailyTask(tok, id) ==
    \/ Unauthenticated("delete_daily_task", tok)
    \/ /\ authenticate(tok) # NULL
       /\ sql' = "daily_tasks.delete"
       /\ IF PgInteger(id) = -1
          THEN /\ resp' = ReplyOwn("delete_daily_task", authenticate(tok), -1, <<>>, 500, {})
               /\ UNCHANGED daily_tasks
          ELSE /\ daily_tasks' = DeleteRows(daily_tasks, PgInteger(id), authenticate(tok))
               /\ resp' = IF Matching(daily_tasks, PgInteger(id), authenticate(tok)) = {}
                          THEN ReplyOwn("delete_daily_task", authenticate(tok), PgInteger(id), <<>>, 404, {})
                          ELSE ReplyOwn("delete_daily_task", authenticate(tok), PgInteger(id), <<>>, 200, {})
       /\ UNCHANGED <<users, medications, appointments, inflight, served>>

\* ---- the pairing handlers of server.js ----

\* SELECT * FROM users WHERE assigned_caregiver IS NULL AND role = 'patient'
SelectUnassigned ==
    {u \in UserIds : users[u].assigned_caregiver = NULL /\ users[u].role = "patient"}

\* GET /caregiver/pending-patients (server.js)
PendingPatientsS(tok, cid) ==
    \/ Unauthenticated("pending_patients", tok)
    \/ /\ authenticate(tok) # NULL
       /\ IF cid = NULL
          THEN /\ sql' = "none"
               /\ resp' = Reply("pending_patients", authenticate(tok), NULL, cid, 400, {})
          ELSE /\ sql' = "users.select"
               /\ resp' = Reply("pending_patients", authenticate(tok), NULL, cid, 200, SelectUnassigned)
       /\ UNCHANGED <<users, tables, inflight, served>>

\* UPDATE users SET assigned_caregiver = $1 WHERE id = $2
AcceptUpdateS(cid, pid) ==
    [u \in UserIds |-> IF u = pid THEN [users[u] EXCEPT !.assigned_caregiver = cid] ELSE users[u]]

\* POST /caregiver/accept-patient/:patientId (server.js): one query
AcceptPatientS(tok, pid) ==
    \/ Unauthenticated("accept_patient", tok)
    \/ /\ authenticate(tok) # NULL
       /\ users' = AcceptUpdateS(authenticate(tok), pid)
       /\ sql' = "users.update"
       /\ resp' = IF RowCount(pid) = 0
                  THEN Reply("accept_patient", authenticate(tok), pid, NULL, 404, {})
                  ELSE Reply("accept_patient", authenticate(tok), pid, NULL, 200, {})
       /\ UNCHANGED <<tables, inflight, served>>

\* query.userId as the client sends it; the empty sequence is an absent parameter
UserIdInputsS == UserIdInputs \cup {<<>>}

\* UPDATE users SET caregiver_id = $1 WHERE id = $2
RequestUpdateS(cg, pid) ==
    [u \in UserIds |-> IF u = pid THEN [users[u] EXCEPT !.caregiver_id = cg] ELSE users[u]]

\* POST /patients/assign-caregiver (server.js); userId is undefined, hence
\* SQL NULL, when the query string has none
PatientsAssignCaregiverS(tok, userId, name) ==
    \/ Unauthenticated("request_caregiver", tok)
    \/ /\ authenticate(tok) # NULL
       /\ sql' = "users.select"
       /\ LET rows == SelectCaregiverByUsername(name) IN
          IF rows = {}
          THEN /\ resp' = Reply("request_caregiver", authenticate(tok), NULL, NULL, 404, {})
               /\ UNCHANGED inflight
          ELSE /\ CanSuspend
               /\ Suspend(Cont("request_caregiver_s", authenticate(tok), PgInteger(userId), FirstRow(rows)))
               /\ resp' = NoResp
       /\ UNCHANGED <<users, tables, served>>

PatientsAssignCaregiverSFinish(c) ==
    /\ c.op = "request_caregiver_s"
    /\ Resume(c)
    /\ sql' = "users.update"
    /\ IF c.pid = -1
       THEN /\ resp' = Reply("request_caregiver", c.caller, NULL, c.cg, 500, {})
            /\ UNCHANGED users
       ELSE /\ users' = RequestUpdateS(c.cg, c.pid)
            /\ resp' = IF RowCount(c.pid) = 0
                       THEN Reply("request_caregiver", c.caller, c.pid, c.cg, 404, {})
                       ELSE Reply("request_caregiver", c.caller, c.pid, c.cg, 200, {})
    /\ UNCHANGED <<tables, served>>

Init ==
    /\ users \in [UserIds -> [role : {"patient", "caregiver"},
                              counterpart_id : Caregivers \cup {NULL},
                              requested_caregiver_id : Caregivers \cup {NULL},
                              assigned_caregiver : {NULL},
                              caregiver_id : {NULL}]]
    /\ \A u \in UserIds : users[u].role = RoleOf(u)
    /\ \A u \in Caregivers : users[u].counterpart_id = NULL /\ users[u].requested_caregiver_id = NULL
    /\ \A u \in Patients : users[u].counterpart_id = NULL \/ users[u].requested_caregiver_id = NULL
    /\ medications = {} /\ daily_tasks = {} /\ appointments = {}
    /\ inflight = EmptyBag
    /\ resp = NoResp
    /\ sql = "none"
    /\ served = {}

\* ---- the pairing workflow of part_000 ----

\* ids a client may put in a path or query parameter
PatientIdInputs == Patients \cup {MissingId}

Next ==
    \/ \E tok \in PatientTokens \cup BadTokens, name \in Usernames : AssignCaregiver(tok, name)
    \/ \E c \in BagToSet(inflight) : AssignCaregiverFinish(c)
    \/ \E tok \in Tokens : GetCaregiver(tok)
    \/ \E tok \in {TokenOf(2)} \cup BadTokens, cid \in Caregivers \cup {MissingId, NULL} :
          PendingPatients(tok, cid)
    \/ \E tok \in Tokens, pid \in PatientIdInputs : AcceptPatient(tok, pid)
    \/ \E c \in BagToSet(inflight) : AcceptPatientFinish(c)
    \/ \E tok \in PatientTokens \cup BadTokens, userId \in UserIdInputs, name \in Usernames :
          PatientsAssignCaregiver(tok, userId, name)
    \/ \E c \in BagToSet(inflight) : PatientsAssignCaregiverFinish(c)
    \/ \E tok \in Tokens : AssignedPatients(tok)

Spec == Init /\ [][Next]_vars

\* ---- the access guard of part_000 ----

\* Every handler that writes counterpart_id (POST /assign_caregiver,
\* POST /patients/assign-caregiver, accept) runs beside the caregiver routes.
\* callers of the caregiver routes: caregiver 2, who is or is not the one the
\* patient is paired with, and a client without a token
GuardTokens == {TokenOf(2), [kind |-> "absent", uid |-> NULL]}

NextGuard ==
    \/ \E tok \in PatientTokens \cup BadTokens, name \in Usernames : AssignCaregiver(tok, name)
    \/ \E c \in BagToSet(inflight) : AssignCaregiverFinish(c)
    \/ \E tok \in {TokenOf(c) : c \in Caregivers}, pid \in Patients : AcceptPatient(tok, pid)
    \/ \E c \in BagToSet(inflight) : AcceptPatientFinish(c)
    \/ \E tok \in PatientTokens, userId \in {<<1>>}, name \in {"cg2", "cg3"} :
          PatientsAssignCaregiver(tok, userId, name)
    \/ \E c \in BagToSet(inflight) : PatientsAssignCaregiverFinish(c)
    \/ \E tok \in GuardTokens, pid \in PatientIdInputs : AddMedicationForPatient(tok, pid, IsoDateTime)
    \/ \E c \in BagToSet(inflight) : AddMedicationForPatientFinish(c)
    \/ \E tok \in GuardTokens, pid \in PatientIdInputs : AddDailyTaskForPatient(tok, pid, IsoDateTime)
    \/ \E c \in BagToSet(inflight) : AddDailyTaskForPatientFinish(c)
    \/ \E tok \in GuardTokens, pid \in PatientIdInputs : AddAppointmentForPatient(tok, pid, IsoDate)
    \/ \E c \in BagToSet(inflight) : AddAppointmentForPatientFinish(c)
    \/ \E tok \in GuardTokens, pid \in PatientIdInputs \cup {NULL} : PatientMedications(tok, pid)
    \/ \E c \in BagToSet(inflight) : PatientMedicationsFinish(c)
    \/ \E tok \in GuardTokens, pid \in PatientIdInputs \cup {NULL} : PatientDailyTasks(tok, pid)
    \/ \E c \in BagToSet(inflight) : PatientDailyTasksFinish(c)

SpecGuard == Init /\ [][NextGuard]_vars

\* ---- server.js ----

\* users rows as POST /register leaves them: no pairing column set
InitServerJs ==
    /\ users = [u \in UserIds |-> [role |-> RoleOf(u), counterpart_id |-> NULL,
                                   requested_caregiver_id |-> NULL,
                                   assigned_caregiver |-> NULL, caregiver_id |-> NULL]]
    /\ medications = {} /\ daily_tasks = {} /\ appointments = {}
    /\ inflight = EmptyBag
    /\ resp = NoResp
    /\ sql = "none"
    /\ served = {}

NextServerJs ==
    \/ \E tok \in PatientTokens \cup BadTokens, name \in Usernames : AssignCaregiver(tok, name)
    \/ \E c \in BagToSet(inflight) : AssignCaregiverFinish(c)
    \/ \E tok \in Tokens : GetCaregiver(tok)
    \/ \E tok \in {TokenOf(2)} \cup BadTokens, cid \in Caregivers \cup {MissingId, NULL} :
          PendingPatientsS(tok, cid)
    \/ \E tok \in Tokens, pid \in PatientIdInputs : AcceptPatientS(tok, pid)
    \/ \E tok \in PatientTokens \cup BadTokens, userId \in UserIdInputsS, name \in Usernames :
          PatientsAssignCaregiverS(tok, userId, name)
    \/ \E c \in BagToSet(inflight) : PatientsAssignCaregiverSFinish(c)

SpecServerJs == InitServerJs /\ [][NextServerJs]_vars

\* ---- login and the self-service routes (lines 43-216, the same in both revisions) ----

\* callers of the self-service routes: the patient, a caregiver and a client
\* without a token
SelfTokens == {TokenOf(1), TokenOf(2), [kind |-> "absent", uid |-> NULL]}

NextSelf ==
    \/ \E username \in {"pat1", "nobody"}, password \in PasswordInputs : Login(username, password)
    \/ \E tok \in SelfTokens : GetMedications(tok)
    \/ \E tok \in SelfTokens : PostMedication(tok, IsoDateTime)
    \/ \E tok \in SelfTokens, id \in RowIdInputs : DeleteMedication(tok, id)
    \/ \E tok \in SelfTokens : GetAppointments(tok)
    \/ \E tok \in SelfTokens, when \in DateInputs : PostAppointment(tok, when)
    \/ \E tok \in SelfTokens : GetDailyTasks(tok)
    \/ \E tok \in SelfTokens, when \in TimeInputs : PostDailyTask(tok, when)
    \/ \E tok \in SelfTokens, id \in RowIdInputs, when \in TimeInputs : PutDailyTask(tok, id, when)
    \/ \E tok \in SelfTokens, id \in RowIdInputs : DeleteDailyTask(tok, id)

SpecSelf == InitServerJs /\ [][NextSelf]_vars

\* ---- a patient's rows written by the patient and by the caregiver ----

\* a store in which patient 1 is paired with caregiver 2
InitCare ==
    /\ users = [u \in UserIds |-> [role |-> RoleOf(u),
                                   counterpart_id |-> IF u = 1 THEN 2 ELSE NULL,
                                   requested_caregiver_id |-> NULL,
                                   assigned_caregiver |-> NULL, caregiver_id |-> NULL]]
    /\ medications = {} /\ daily_tasks = {} /\ appointments = {}
    /\ inflight = EmptyBag
    /\ resp = NoResp
    /\ sql = "none"
    /\ served = {}

\* callers of the caregiver routes: the paired caregiver, the other caregiver
\* and a client without a token
CareTokens == {TokenOf(2), TokenOf(3), [kind |-> "absent", uid |-> NULL]}

NextCare ==
    \/ \E tok \in SelfTokens, when \in TimeInputs : PostMedication(tok, when)
    \/ \E tok \in CareTokens, pid \in Patients, when \in TimeInputs :
          AddMedicationForPatient(tok, pid, when)
    \/ \E c \in BagToSet(inflight) : AddMedicationForPatientFinish(c)
    \/ \E tok \in SelfTokens, when \in DateInputs : PostAppointment(tok, when)
    \/ \E tok \in CareTokens, pid \in Patients, when \in DateInputs :
          AddAppointmentForPatient(tok, pid, when)
    \/ \E c \in BagToSet(inflight) : AddAppointmentForPatientFinish(c)
    \/ \E tok \in SelfTokens, when \in TimeInputs : PostDailyTask(tok, when)
    \/ \E tok \in CareTokens, pid \in Patients, when \in TimeInputs :
          AddDailyTaskForPatient(tok, pid, when)
    \/ \E c \in BagToSet(inflight) : AddDailyTaskForPatientFinish(c)

SpecCare == InitCare /\ [][NextCare]_vars

\* ---- the pairing routes of part_000 called by users of either role ----

\* no pairing handler reads the role of its caller or of the row it writes:
\* a caregiver is among the callers, and body.userId may name a caregiver ("2")

\* a token signed at login (valid for seven days) for a user whose row has
\* since been removed from the store
StaleToken == [kind |-> "valid", uid |-> MissingId]

RoleTokens == {TokenOf(1), TokenOf(3), StaleToken, [kind |-> "absent", uid |-> NULL]}

NextRoles ==
    \/ \E tok \in RoleTokens, name \in {"cg2", "nobody"} : AssignCaregiver(tok, name)
    \/ \E c \in BagToSet(inflight) : AssignCaregiverFinish(c)
    \/ \E tok \in {TokenOf(2)}, pid \in Patients : AcceptPatient(tok, pid)
    \/ \E c \in BagToSet(inflight) : AcceptPatientFinish(c)
    \/ \E tok \in RoleTokens, userId \in {<<1>>, <<2>>}, name \in {"cg3", "nobody"} :
          PatientsAssignCaregiver(tok, userId, name)
    \/ \E c \in BagToSet(inflight) : PatientsAssignCaregiverFinish(c)

SpecRoles == Init /\ [][NextRoles]_vars

\* ---- registration into an empty store ----

InitRegister ==
    /\ users = <<>>
    /\ medications = {} /\ daily_tasks = {} /\ appointments = {}
    /\ inflight = EmptyBag
    /\ resp = NoResp
    /\ sql = "none"
    /\ served = {}

NextRegister ==
    \E username \in RegisterNames, password \in PasswordInputs, role \in RegisterRoles :
        Register(username, password, role)

SpecRegister == InitRegister /\ [][NextRegister]_vars

\* ==== properties ====

GuardOps == {"add_medication", "add_daily_task", "add_appointment",
             "patient_medications", "patient_daily_tasks"}

DataSql == {"medications.insert", "daily_tasks.insert", "appointments.insert",
            "medications.select", "daily_tasks.select"}

\* the caregiver-route handlers this step let past their guard
Admitted ==
    {k \in BagToSet(inflight') :
        k.op \in GuardOps /\ CopiesIn(k, inflight') > CopiesIn(k, inflight)}

\* C1: a successful request of patient p naming caregiver c, answered
\* immediately before caregiver c's accept of p is answered, makes that accept
\* succeed; and every accept that succeeds leaves p Paired with the caller
\* (counterpart_id = c, requested_caregiver_id NULL).
C1_RequestThenAccept ==
    [][/\ (/\ resp.op = "request_caregiver" /\ resp.status = 200
           /\ resp'.op = "accept_patient" /\ resp'.caller = resp.cg /\ resp'.pid = resp.pid)
          => resp'.status = 200
       /\ (resp'.op = "accept_patient" /\ resp'.status = 200)
          => /\ users'[resp'.pid].counterpart_id = resp'.caller
             /\ users'[resp'.pid].requested_caregiver_id = NULL]_vars

\* C2 (server.js; the request is recorded in caregiver_id): an accept by c of
\* a patient whose pending request does not name c, or who does not exist, is
\* not answered with success and changes no users row.
C2_FailedAcceptChangesNothing ==
    [][(/\ resp'.op = "accept_patient" /\ resp'.caller # NULL
        /\ (resp'.pid \notin UserIds \/ users[resp'.pid].caregiver_id # resp'.caller))
       => (resp'.status # 200 /\ users' = users)]_vars

\* C3 (server.js, where an accept is a single query, so that two concurrent
\* accepts are two consecutive steps; the request is recorded in
\* caregiver_id): of two accepts, by different caregivers, of a patient whose
\* pending request names one of them, only the first is answered with
\* success, and the patient stays paired with that caregiver.
C3_OneAcceptWins ==
    [][(/\ resp.op = "accept_patient" /\ resp.status = 200
        /\ resp'.op = "accept_patient" /\ resp'.pid = resp.pid
        /\ resp'.caller \in Caregivers /\ resp.caller \in Caregivers
        /\ resp'.caller # resp.caller
        /\ users[resp.pid].caregiver_id \in {resp.caller, resp'.caller})
       => (resp'.status # 200 /\ users'[resp.pid].assigned_caregiver = resp.caller)]_vars

C5_GuardIffPaired ==
    [][/\ \A k \in Admitted :
            k.pid \in UserIds /\ users[k.pid].counterpart_id = k.caller
       /\ (resp'.op \in GuardOps /\ resp'.status = 403)
          => ~(resp'.pid \in UserIds /\ users[resp'.pid].counterpart_id = resp'.caller)]_vars

C5_Witness ==
    /\ resp.op \in GuardOps /\ resp.status = 403
    /\ resp.caller \in Caregivers /\ resp.pid \in Patients
    /\ users[resp.pid].counterpart_id \in Caregivers \ {resp.caller}

\* C6: a step that answers 403 on a caregiver route has sent only the guard's
\* SELECT on users, changes no sub-resource table and leaves no handler
\* suspended for it; an insert or select on a sub-resource table is only ever
\* sent by a handler that was suspended after passing its guard.
C6_DeniedRunsNoDataOperation ==
    [][/\ (resp'.op \in GuardOps /\ resp'.status = 403)
          => (sql' = "users.select" /\ UNCHANGED tables /\ inflight' = inflight)
       /\ (sql' \in DataSql \/ ~UNCHANGED tables)
          => \E c \in BagToSet(inflight) :
                /\ c.op \in GuardOps
                /\ inflight' = inflight (-) SetToBag({c})
                /\ resp'.op = c.op /\ resp'.status = 200
                /\ resp'.caller = c.caller /\ resp'.pid = c.pid]_vars

C6_Witness ==
    /\ resp.op = "add_medication" /\ resp.status = 403
    /\ resp.caller \in Caregivers /\ resp.pid \in Patients
    /\ sql = "users.select"
    /\ medications # {}

\* C7 (server.js; the request is recorded in caregiver_id): the body of a
\* successful pending-patients answer for caregiverId c is exactly the set of
\* patients whose pending request names c.
C7_PendingListExact ==
    (resp.op = "pending_patients" /\ resp.status = 200)
    => resp.body = {u \in UserIds : users[u].role = "patient" /\ users[u].caregiver_id = resp.cg}

\* C8: a successful request of p naming caregiver c leaves
\* requested_caregiver_id of p equal to c and does not change p's
\* counterpart_id.
C8_RequestOnlyPending ==
    [][(resp'.op = "request_caregiver" /\ resp'.status = 200)
       => /\ users'[resp'.pid].requested_caregiver_id = resp'.cg
          /\ users'[resp'.pid].counterpart_id = users[resp'.pid].counterpart_id]_vars

\* C9: once caregiver c has been served on a caregiver route for patient p and
\* p's counterpart_id is no longer c, no caregiver route lets c through for p,
\* and the guard of every such request answers 403.
C9_RevokedDenied ==
    [][/\ \A k \in Admitted :
            <<k.caller, k.pid>> \in served => users[k.pid].counterpart_id = k.caller
       /\ (/\ resp'.op \in GuardOps /\ sql' = "users.select"
           /\ <<resp'.caller, resp'.pid>> \in served
           /\ users[resp'.pid].counterpart_id # resp'.caller)
          => resp'.status = 403]_vars

C9_Witness ==
    /\ resp.op \in GuardOps /\ resp.status = 403
    /\ <<resp.caller, resp.pid>> \in served

\* C10 (server.js): an accept of patient p answered right after a successful
\* accept of p, so with no request of p in between, is not answered with
\* success and leaves p paired as the first accept left it.
C10_PendingConsumed ==
    [][(/\ resp.op = "accept_patient" /\ resp.status = 200
        /\ resp'.op = "accept_patient" /\ resp'.caller # NULL /\ resp'.pid = resp.pid)
       => (/\ resp'.status # 200
           /\ users'[resp.pid].assigned_caregiver = users[resp.pid].assigned_caregiver)]_vars

\* C11: a request without a valid token is answered 401 by the middleware
\* with no query sent, no table changed and no handler left suspended; every
\* query that is sent, and every suspended handler, belongs to a request
\* whose token verified.
C11_UnauthenticatedNoStoreAccess ==
    [][/\ (resp'.status = 401 /\ resp'.op \notin {"login", "register"})
          => /\ resp'.caller = NULL /\ sql' = "none"
             /\ users' = users /\ UNCHANGED tables /\ inflight' = inflight
       /\ (resp'.op \notin {"none", "login", "register"} /\ resp'.caller = NULL)
          => (resp'.status = 401 /\ sql' = "none")
       /\ \A c \in BagToSet(inflight') : c.caller \in UserIds]_vars

C11_Witness ==
    /\ resp.op = "accept_patient" /\ resp.status = 401 /\ resp.caller = NULL
    /\ sql = "none"
    /\ \E p \in Patients : users[p].requested_caregiver_id # NULL

\* the table a self-service update or delete is addressed to
WriteTarget(op) == IF op = "delete_medication" THEN medications ELSE daily_tasks

\* C12: a self-service update or delete whose :id names no row owned by the
\* caller (no such id, or another user's row) is answered 404 and changes no
\* table, on DELETE /medications/:id as on PUT and DELETE /daily_tasks/:id.
C12_UnownedWriteNotFound ==
    [][(/\ resp'.op \in {"delete_medication", "put_daily_task", "delete_daily_task"}
        /\ resp'.caller # NULL /\ resp'.id # -1
        /\ Matching(WriteTarget(resp'.op), resp'.id, resp'.caller) = {})
       => (resp'.status = 404 /\ UNCHANGED tables)]_vars

SelfOps == {"get_medications", "post_medication", "delete_medication",
            "get_appointments", "post_appointment",
            "get_daily_tasks", "post_daily_task", "put_daily_task", "delete_daily_task"}

\* the rows of <table> that belong to somebody other than uid
RowsOfOthers(table, uid) == {r \in table : r.user_id # uid}

\* C13: a self-service request of user A leaves every row of every other user
\* as it was (not updated, not deleted), answers with rows of A only, and the
\* rows it creates have user_id = A.
C13_SelfServiceIsolated ==
    [][(resp'.op \in SelfOps /\ resp'.caller # NULL)
       => /\ RowsOfOthers(medications', resp'.caller) = RowsOfOthers(medications, resp'.caller)
          /\ RowsOfOthers(appointments', resp'.caller) = RowsOfOthers(appointments, resp'.caller)
          /\ RowsOfOthers(daily_tasks', resp'.caller) = RowsOfOthers(daily_tasks, resp'.caller)
          /\ \A r \in resp'.body : r.user_id = resp'.caller]_vars

C13_Witness ==
    /\ resp.op \in {"put_daily_task", "delete_daily_task"} /\ resp.status = 404
    /\ \E r \in Live(daily_tasks) : r.id = resp.id /\ r.user_id # resp.caller

\* C14: a medication created for patient p with time field f is stored as the
\* same row, the next id aside, whether p sent it to POST /medications or p's
\* paired caregiver sent it to POST /caregiver/add-medication/p: user_id is p,
\* never the caregiver's id, and the field is f.
C14_SameRowEitherRoute ==
    [][/\ (resp'.op = "post_medication" /\ resp'.status = 200)
          => medications' = medications \cup
                {[id |-> Cardinality(medications) + 1, user_id |-> resp'.caller,
                  when |-> resp'.sent, live |-> TRUE]}
       /\ (resp'.op = "add_medication" /\ resp'.status = 200)
          => \E c \in BagToSet(inflight) :
                /\ c.op = "add_medication" /\ inflight' = inflight (-) SetToBag({c})
                /\ c.caller = resp'.caller /\ c.pid = resp'.pid /\ c.pid # c.caller
                /\ medications' = medications \cup
                      {[id |-> Cardinality(medications) + 1, user_id |-> c.pid,
                        when |-> c.when, live |-> TRUE]}]_vars

C14_Witness ==
    /\ resp.op = "add_medication" /\ resp.status = 200 /\ resp.caller \in Caregivers
    /\ \E r \in medications :
          r.id \in resp.body /\ r.user_id = resp.pid /\ r.user_id \in Patients

C16_PairingDirected ==
    \A u \in UserIds :
        users[u].counterpart_id # NULL
        => /\ users[u].role = "patient"
           /\ users[u].counterpart_id \in UserIds
           /\ users[users[u].counterpart_id].role = "caregiver"

\* C17: every row of medications, appointments and daily_tasks has a user_id
\* that is the id of a user with role patient.
C17_RowsOwnedByPatients ==
    \A r \in medications \cup appointments \cup daily_tasks :
        r.user_id \in UserIds /\ users[r.user_id].role = "patient"

DirectOps == {"assign_caregiver", "request_caregiver"}

\* the users row a direct assignment is addressed to: the caller's own on
\* POST /assign_caregiver, body.userId on POST /patients/assign-caregiver
DirectTarget(r) == IF r.op = "assign_caregiver" THEN r.caller ELSE r.pid

CredentialsMatch(sent) ==
    \E u \in UserIds : /\ UsernameOf(u) = sent.username
                       /\ sent.password.given /\ sent.password.text = PasswordOf(u)

\* C19: a login that fails gives the caller the same answer whether the
\* username is unknown or the username is known and the password is not the
\* user's: status 401, the error "Invalid credentials", no token.
C19_LoginFailureUniform ==
    [][(resp'.op = "login" /\ ~CredentialsMatch(resp'.sent))
       => /\ resp'.status = 401 /\ resp'.error = "Invalid credentials"
          /\ resp'.token = NoToken]_vars

\* C20: every stored appointment date is YYYY-MM-DD and every stored
\* daily-task time is YYYY-MM-DD HH:mm:ss, and no handler that creates an
\* appointment or a daily task is past its first query with a field that is
\* not.
C20_MalformedRejected ==
    /\ \A r \in appointments : IsDateFormat(r.when)
    /\ \A r \in daily_tasks : IsDateTimeFormat(r.when)
    /\ \A c \in BagToSet(inflight) :
          /\ c.op = "add_appointment" => IsDateFormat(c.when)
          /\ c.op = "add_daily_task" => IsDateTimeFormat(c.when)

\* C21: a registration whose username a users row already carries is answered
\* with the conflict error (409), not with success and not with the generic
\* failure, and leaves the users table as it was; no two users rows ever carry
\* the same username.
C21_DuplicateUsernameConflict ==
    [][/\ (resp'.op = "register" /\ resp'.sent.password.given
              /\ Registered(resp'.sent.username) # {})
          => (resp'.status = 409 /\ users' = users)
       /\ \A u, v \in DOMAIN users' :
             users'[u].username = users'[v].username => u = v]_vars

\* C22: a request of patient p for caregiver c that reaches the store when it
\* already holds what an earlier such request wrote (the column the request
\* writes is c), in particular right after that request was answered, is
\* answered 200 and leaves the users table exactly as it was.
C22_RequestIdempotent ==
    [][/\ (/\ resp'.op = "request_caregiver" /\ sql' = "users.update"
           /\ resp'.pid \in UserIds /\ users[resp'.pid].counterpart_id = resp'.cg)
          => (resp'.status = 200 /\ users' = users)
       /\ (/\ resp.op = "request_caregiver" /\ resp.status = 200
           /\ resp'.op = "request_caregiver" /\ sql' = "users.update"
           /\ resp'.pid = resp.pid /\ resp'.cg = resp.cg)
          => (resp'.status = 200 /\ users' = users)]_vars

C22_Witness ==
    /\ resp.op = "request_caregiver" /\ resp.status = 200
    /\ users[resp.pid].counterpart_id = resp.cg
    /\ \E c \in BagToSet(inflight) :
          c.op = "request_caregiver" /\ c.pid = resp.pid /\ c.cg = resp.cg

\* C23 (server.js, where the accept records the pairing in
\* assigned_caregiver): GET /get_caregiver of user p is answered 404 exactly
\* when p's paired-caregiver field is NULL, and otherwise 200 with the user
\* that field references.
C23_CaregiverNameIffPaired ==
    (resp.op = "get_caregiver" /\ resp.caller \in UserIds)
    => IF users[resp.caller].assigned_caregiver = NULL
       THEN resp.status = 404
       ELSE resp.status = 200 /\ resp.body = {users[resp.caller].assigned_caregiver}

\* the paired and the pending field of a users row
Pairing(row) == <<row.counterpart_id, row.requested_caregiver_id>>

\* C24: a step changes the paired or pending field of user p only when it
\* answers a request or direct assignment whose authenticated caller is p, or
\* an accept whose caller is the caregiver p's pending request names.
C24_PairingOwnership ==
    [][\A p \in UserIds :
          Pairing(users'[p]) # Pairing(users[p])
          => \/ resp'.op \in DirectOps /\ resp'.caller = p
             \/ /\ resp'.op = "accept_patient" /\ resp'.pid = p
                /\ users[p].requested_caregiver_id = resp'.caller]_vars

C26_InsertOnlyWhilePaired ==
    [][(/\ resp'.op \in {"add_medication", "add_daily_task", "add_appointment"}
        /\ resp'.status = 200 /\ ~UNCHANGED tables)
       => users[resp'.pid].counterpart_id = resp'.caller]_vars
====
